---- MODULE Spec2Model ----
(***************************************************************************)
(* Model of pynotest.py: the detector of functions whose whole body is in  *)
(* the "Missing" column of a `coverage report -m` table.                   *)
(*                                                                         *)
(* Text is modelled as sequences of one-character strings, so that the     *)
(* splitting, stripping and integer conversion of the parser are computed  *)
(* and not assumed.  A source file is modelled by the statement tree that  *)
(* ast.parse returns for it.                                               *)
(***************************************************************************)
EXTENDS Integers, Sequences, FiniteSets, TLC

VARIABLES
    report,          \* the lines of the input stream `file`
    fs,              \* the file system: path -> NoFile or the file's statements
    pos,             \* number of lines of `file` consumed so far
    pc,              \* position of the program
    missed_by_file,  \* the dict of parse_coverage_report, in insertion order
    file_idx,        \* number of items of missed_by_file the loop has taken
    functions,       \* result of the last call of get_functions_from_file
    never_called,    \* the result list of find_never_called_functions
    stdout,          \* what print() has written
    error            \* the exception that ended the run, or "none"

vars == <<report, fs, pos, pc, missed_by_file, file_idx, functions,
          never_called, stdout, error>>

-----------------------------------------------------------------------------
(* Bounds of the model.                                                    *)

MaxLine == 5        \* largest line number in the "Missing" texts of SpecDetect
MaxStmts == 3       \* statements of a generated source file
MaxText == 5        \* characters of a "Missing" text of SpecLines
MaxRows == 4        \* lines after the second line in a report of SpecReport
MaxItems == 3       \* lines after the second line in a report of Spec

-----------------------------------------------------------------------------
(* Text: str methods of Python on sequences of characters.                 *)

Digits == <<"0", "1", "2", "3", "4", "5", "6", "7", "8", "9">>

IsDigit(c) == \E d \in 1..10 : Digits[d] = c

DigitVal(c) == (CHOOSE d \in 1..10 : Digits[d] = c) - 1

\* str.isspace for the characters of the model
IsSpace(c) == c \in {" ", "\n"}

RECURSIVE LStrip(_)
LStrip(s) ==
    IF s # <<>> /\ IsSpace(Head(s)) THEN LStrip(Tail(s)) ELSE s

RECURSIVE RStrip(_)
RStrip(s) ==
    IF s # <<>> /\ IsSpace(s[Len(s)]) THEN RStrip(SubSeq(s, 1, Len(s) - 1)) ELSE s

\* str.strip()
Strip(s) == RStrip(LStrip(s))

\* str.startswith(prefix)
StartsWith(s, prefix) ==
    /\ Len(s) >= Len(prefix)
    /\ SubSeq(s, 1, Len(prefix)) = prefix

\* `c in s` for a one-character c
Contains(s, c) == \E i \in 1..Len(s) : s[i] = c

\* str.split(sep) for a one-character separator: empty pieces are kept
RECURSIVE SplitOn(_, _)
SplitOn(s, sep) ==
    IF Contains(s, sep)
    THEN LET i == CHOOSE k \in 1..Len(s) :
                      s[k] = sep /\ \A j \in 1..(k - 1) : s[j] # sep
         IN  <<SubSeq(s, 1, i - 1)>> \o SplitOn(SubSeq(s, i + 1, Len(s)), sep)
    ELSE <<s>>

\* index of the first whitespace character of s, or Len(s) + 1
FirstSpace(s) ==
    IF \E k \in 1..Len(s) : IsSpace(s[k])
    THEN CHOOSE k \in 1..Len(s) : IsSpace(s[k]) /\ \A j \in 1..(k - 1) : ~IsSpace(s[j])
    ELSE Len(s) + 1

\* str.split(maxsplit=n): runs of whitespace separate the fields, leading
\* whitespace is dropped, and after n splits the rest is one field
RECURSIVE SplitWs(_, _)
SplitWs(s, maxsplit) ==
    LET t == LStrip(s) IN
    IF t = <<>> THEN <<>>
    ELSE IF maxsplit = 0 THEN <<t>>
    ELSE LET i == FirstSpace(t)
         IN  <<SubSeq(t, 1, i - 1)>> \o SplitWs(SubSeq(t, i, Len(t)), maxsplit - 1)

\* the value of a sequence of decimal digits
RECURSIVE Decimal(_)
Decimal(s) ==
    IF s = <<>> THEN 0
    ELSE 10 * Decimal(SubSeq(s, 1, Len(s) - 1)) + DigitVal(s[Len(s)])

\* int(s) succeeds: surrounding whitespace is ignored, the rest is digits
IntOk(s) ==
    LET t == Strip(s) IN t # <<>> /\ \A i \in 1..Len(t) : IsDigit(t[i])

\* int(s) where it succeeds
IntVal(s) == Decimal(Strip(s))

\* list(range(a, b)): empty when a >= b
Range(a, b) == [i \in 1..(IF b > a THEN b - a ELSE 0) |-> a + i - 1]

\* set(list)
ToSet(seq) == {seq[i] : i \in 1..Len(seq)}

-----------------------------------------------------------------------------
(* parse_missed_lines                                                      *)

Fail == [ok |-> FALSE, lines |-> <<>>]

\* one iteration of the loop of parse_missed_lines: the lines one
\* comma-separated part adds, or the ValueError of int() or of the unpacking
PartLines(part) ==
    IF Contains(part, "-")
    THEN LET ps == SplitOn(part, "-") IN
         IF Len(ps) = 2 /\ IntOk(ps[1]) /\ IntOk(ps[2])
         THEN [ok |-> TRUE, lines |-> Range(IntVal(ps[1]), IntVal(ps[2]) + 1)]
         ELSE Fail
    ELSE IF IntOk(part)
         THEN [ok |-> TRUE, lines |-> <<IntVal(part)>>]
         ELSE Fail

RECURSIVE ExtendParts(_, _)
ExtendParts(lines, parts) ==
    IF parts = <<>> THEN [ok |-> TRUE, lines |-> lines]
    ELSE LET r == PartLines(Head(parts)) IN
         IF r.ok THEN ExtendParts(lines \o r.lines, Tail(parts)) ELSE Fail

parse_missed_lines(missing_str) == ExtendParts(<<>>, SplitOn(missing_str, ","))

-----------------------------------------------------------------------------
(* parse_coverage_report                                                   *)

\* a dict is the sequence of its items in insertion order
Keys(d) == {d[i].key : i \in 1..Len(d)}

\* d[k] = v: a new key goes last, an old key keeps its place
DictSet(d, k, v) ==
    IF k \in Keys(d)
    THEN [i \in 1..Len(d) |-> IF d[i].key = k THEN [key |-> k, val |-> v] ELSE d[i]]
    ELSE Append(d, [key |-> k, val |-> v])

Dashes == <<"-", "-", "-", "-">>

\* mutant: the assertion accepts any line that starts with one dash
SeplineOkOneDash(sepline) == StartsWith(sepline, <<"-">>)

\* the assertion on the second line
SeplineOk(sepline) == StartsWith(sepline, Dashes)

\* mutant: a blank line does not end the loop
IsTerminatorDashesOnly(line) == StartsWith(line, Dashes)

\* the test that ends the loop over the rows
IsTerminator(line) == StartsWith(line, Dashes) \/ Strip(line) = <<>>

RowParts(line) == SplitWs(Strip(line), 4)

\* the row has the fifth field
HasMissing(parts) == Len(parts) > 4

\* one iteration of the loop over the rows, on a line that does not end it
RowStep(d, line) ==
    LET parts == RowParts(line) IN
    IF HasMissing(parts)
    THEN LET r == parse_missed_lines(Strip(parts[5])) IN
         IF r.ok THEN [ok |-> TRUE, d |-> DictSet(d, parts[1], ToSet(r.lines))]
         ELSE [ok |-> FALSE, d |-> d]
    ELSE [ok |-> TRUE, d |-> d]

\* file.readline(): the next line, or the empty string at the end
Readline(lines, p) == IF p < Len(lines) THEN lines[p + 1] ELSE <<>>

Advance(lines, p) == IF p < Len(lines) THEN p + 1 ELSE p

-----------------------------------------------------------------------------
(* Source files and ast.parse                                              *)

(* A source file is the sequence of its statements in source order, each   *)
(* with its kind, its indentation depth, the number of lines it takes (a   *)
(* compound statement: of its header) and, for a definition, its name.     *)

FunctionKinds == {"FunctionDef", "AsyncFunctionDef"}

CompoundKinds == FunctionKinds \cup {"ClassDef", "If"}

\* an entry of the file system: a path that does not exist, or a file
NoFile == [exists |-> FALSE, src |-> <<>>]

File(src) == [exists |-> TRUE, src |-> src]

SumLines(src, n) ==
    LET RECURSIVE S(_)
        S(k) == IF k = 0 THEN 0 ELSE S(k - 1) + src[k].nlines
    IN  S(n)

\* the last statement of the block that statement i heads
LastOf(src, i) ==
    CHOOSE j \in i..Len(src) :
        /\ \A k \in (i + 1)..j : src[k].depth > src[i].depth
        /\ (j = Len(src) \/ src[j + 1].depth <= src[i].depth)

\* a set of node indices as the list in source order
RECURSIVE InOrder(_)
InOrder(S) ==
    IF S = {} THEN <<>>
    ELSE LET m == CHOOSE x \in S : \A y \in S : x <= y
         IN  <<m>> \o InOrder(S \ {m})

\* the tree of ast.parse: node i of the tree is statement i of the file
AstParse(src) ==
    [i \in 1..Len(src) |->
        LET last == LastOf(src, i) IN
        [kind       |-> IF src[i].kind \in {"ExprConstant", "ExprCall"}
                        THEN "Expr" ELSE src[i].kind,
         value      |-> IF src[i].kind = "ExprConstant" THEN "Constant"
                        ELSE IF src[i].kind = "ExprCall" THEN "Call" ELSE "",
         name       |-> src[i].name,
         lineno     |-> SumLines(src, i - 1) + 1,
         end_lineno |-> SumLines(src, last),
         body       |-> InOrder({j \in (i + 1)..last :
                                     src[j].depth = src[i].depth + 1})]]

\* the statements of the module itself
ModuleBody(src) == InOrder({j \in 1..Len(src) : src[j].depth = 0})

-----------------------------------------------------------------------------
(* get_functions_from_file                                                 *)

\* the test that leaves a statement out of code_lines
IsSkipped(child) == child.kind = "Expr" /\ child.value = "Constant"

\* mutant: the tree has no end_lineno and the default is taken
EndOfIsStart(child) == child.lineno

\* getattr(child, 'end_lineno', start): ast.parse sets end_lineno on every
\* statement
EndOf(child) == child.end_lineno

\* the lines one statement of the body adds to code_lines
ChildLines(child) ==
    IF IsSkipped(child) THEN <<>>
    ELSE Range(child.lineno, EndOf(child) + 1)

RECURSIVE CodeLines(_, _)
CodeLines(tree, body) ==
    IF body = <<>> THEN <<>>
    ELSE ChildLines(tree[Head(body)]) \o CodeLines(tree, Tail(body))

\* the tuple visit_FunctionDef appends
FuncRecord(tree, i) ==
    [name       |-> tree[i].name,
     funcloc    |-> tree[i].lineno,
     code_lines |-> CodeLines(tree, tree[i].body)]

\* node kinds that have a visit_ method of FuncVisitor
IsVisited(kind) == kind \in {"FunctionDef", "AsyncFunctionDef"}

RECURSIVE Visit(_, _)
RECURSIVE VisitAll(_, _)

\* generic_visit(node): visit every child in source order
GenericVisit(tree, i) == VisitAll(tree, tree[i].body)

\* mutant: the visit stops at a function, generic_visit is not called
VisitFunctionDefNoDescend(tree, i) == <<FuncRecord(tree, i)>>

\* mutant: the children are visited before the record is appended
VisitFunctionDefChildrenFirst(tree, i) ==
    GenericVisit(tree, i) \o <<FuncRecord(tree, i)>>

\* visit_FunctionDef(node), to which visit_AsyncFunctionDef delegates:
\* append the record, then visit the children
VisitFunctionDef(tree, i) == <<FuncRecord(tree, i)>> \o GenericVisit(tree, i)

\* NodeVisitor.visit(node): the visit_ method of the kind, or generic_visit
Visit(tree, i) ==
    IF IsVisited(tree[i].kind) THEN VisitFunctionDef(tree, i)
    ELSE GenericVisit(tree, i)

VisitAll(tree, nodes) ==
    IF nodes = <<>> THEN <<>>
    ELSE Visit(tree, Head(nodes)) \o VisitAll(tree, Tail(nodes))

get_functions_from_file(src) ==
    LET tree == AstParse(src) IN VisitAll(tree, ModuleBody(src))

-----------------------------------------------------------------------------
(* find_never_called_functions                                             *)

\* the default of the parameter source_root
SourceRoot == <<".">>

\* os.path.join(root, rel)
Join(root, rel) ==
    IF rel # <<>> /\ Head(rel) = "/" THEN rel
    ELSE IF root = <<>> \/ root[Len(root)] = "/" THEN root \o rel
    ELSE root \o <<"/">> \o rel

\* os.path.exists(filepath)
Exists(files, filepath) == filepath \in DOMAIN files /\ files[filepath].exists

\* mutant: any() in place of all()
AnyMissed(func_lines, missed_lines) ==
    \E i \in 1..Len(func_lines) : func_lines[i] \in missed_lines

\* all(line in missed_lines for line in func_lines)
AllMissed(func_lines, missed_lines) ==
    \A i \in 1..Len(func_lines) : func_lines[i] \in missed_lines

\* mutant: the joined path is appended in place of the path of the report
ResultEntryJoinedPath(rel_path, filepath, func) ==
    <<filepath, func.name, func.funcloc>>

\* the tuple appended for a function that qualifies
ResultEntry(rel_path, filepath, func) == <<rel_path, func.name, func.funcloc>>

\* the loop over the functions of one file: the entries it appends
RECURSIVE Matches(_, _, _, _)
Matches(rel_path, filepath, missed_lines, funcs) ==
    IF funcs = <<>> THEN <<>>
    ELSE (IF AllMissed(Head(funcs).code_lines, missed_lines)
          THEN <<ResultEntry(rel_path, filepath, Head(funcs))>> ELSE <<>>)
         \o Matches(rel_path, filepath, missed_lines, Tail(funcs))

\* the line print() writes for a file that does not exist
NotFoundMessage(filepath) == <<"File not found: ", filepath>>

-----------------------------------------------------------------------------
(* The program: find_never_called_functions(file, source_root) step by     *)
(* step.  pc is "header", "sepline" and "rows" inside parse_coverage_report,*)
(* "files" inside the loop over the items of the dict, "done" after the    *)
(* return and "error" after an exception, which nothing catches.           *)

\* line 46-47: the dict is created and the header line is read and dropped
ReadHeader ==
    /\ pc = "header"
    /\ missed_by_file' = <<>>
    /\ pos' = Advance(report, pos)
    /\ pc' = "sepline"
    /\ UNCHANGED <<report, fs, file_idx, functions, never_called, stdout, error>>

\* line 48-49: the second line is read and asserted to start with dashes
ReadSepline ==
    /\ pc = "sepline"
    /\ pos' = Advance(report, pos)
    /\ IF SeplineOk(Readline(report, pos))
       THEN pc' = "rows" /\ error' = error
       ELSE pc' = "error" /\ error' = "AssertionError"
    /\ UNCHANGED <<report, fs, missed_by_file, file_idx, functions,
                   never_called, stdout>>

\* line 50-57: one iteration of the loop on a line that does not end it
RowData ==
    /\ pc = "rows"
    /\ pos < Len(report)
    /\ ~IsTerminator(report[pos + 1])
    /\ pos' = pos + 1
    /\ LET r == RowStep(missed_by_file, report[pos + 1]) IN
       IF r.ok
       THEN missed_by_file' = r.d /\ pc' = pc /\ error' = error
       ELSE missed_by_file' = missed_by_file /\ pc' = "error"
            /\ error' = "ValueError"
    /\ UNCHANGED <<report, fs, file_idx, functions, never_called, stdout>>

\* line 51-52, 58, 130-131: the loop breaks at a line of dashes or a blank
\* line, the dict is returned and the result list is created
RowBreak ==
    /\ pc = "rows"
    /\ pos < Len(report)
    /\ IsTerminator(report[pos + 1])
    /\ pos' = pos + 1
    /\ pc' = "files"
    /\ file_idx' = 0
    /\ never_called' = <<>>
    /\ UNCHANGED <<report, fs, missed_by_file, functions, stdout, error>>

\* line 50, 58, 130-131: the stream is exhausted
RowsEnd ==
    /\ pc = "rows"
    /\ pos = Len(report)
    /\ pc' = "files"
    /\ file_idx' = 0
    /\ never_called' = <<>>
    /\ UNCHANGED <<report, fs, pos, missed_by_file, functions, stdout, error>>

\* mutant: break in place of continue
FileNotFoundBreaks ==
    /\ pc = "files"
    /\ file_idx < Len(missed_by_file)
    /\ LET rel_path == missed_by_file[file_idx + 1].key
           filepath == Join(SourceRoot, rel_path)
       IN  /\ ~Exists(fs, filepath)
           /\ stdout' = Append(stdout, NotFoundMessage(filepath))
    /\ file_idx' = Len(missed_by_file)
    /\ UNCHANGED <<report, fs, pos, pc, missed_by_file, functions,
                   never_called, error>>

\* line 133-137: the file of the next item does not exist
FileNotFound ==
    /\ pc = "files"
    /\ file_idx < Len(missed_by_file)
    /\ LET rel_path == missed_by_file[file_idx + 1].key
           filepath == Join(SourceRoot, rel_path)
       IN  /\ ~Exists(fs, filepath)
           /\ stdout' = Append(stdout, NotFoundMessage(filepath))
    /\ file_idx' = file_idx + 1
    /\ UNCHANGED <<report, fs, pos, pc, missed_by_file, functions,
                   never_called, error>>

\* line 133-142: the file of the next item exists
AnalyzeFile ==
    /\ pc = "files"
    /\ file_idx < Len(missed_by_file)
    /\ LET rel_path == missed_by_file[file_idx + 1].key
           missed_lines == missed_by_file[file_idx + 1].val
           filepath == Join(SourceRoot, rel_path)
       IN  /\ Exists(fs, filepath)
           /\ functions' = get_functions_from_file(fs[filepath].src)
           /\ never_called' = never_called \o
                  Matches(rel_path, filepath, missed_lines, functions')
    /\ file_idx' = file_idx + 1
    /\ UNCHANGED <<report, fs, pos, pc, missed_by_file, stdout, error>>

\* line 144
Return ==
    /\ pc = "files"
    /\ file_idx = Len(missed_by_file)
    /\ pc' = "done"
    /\ UNCHANGED <<report, fs, pos, missed_by_file, file_idx, functions,
                   never_called, stdout, error>>

Next ==
    \/ ReadHeader
    \/ ReadSepline
    \/ RowData
    \/ RowBreak
    \/ RowsEnd
    \/ FileNotFound
    \/ AnalyzeFile
    \/ Return

-----------------------------------------------------------------------------
(* The same functions as operators on their whole input, for properties    *)
(* that compare two runs.                                                  *)

\* the loop over the rows from line p + 1 on: the dict, or the ValueError
RECURSIVE RowLoop(_, _, _)
RowLoop(d, lines, p) ==
    IF p >= Len(lines) \/ IsTerminator(lines[p + 1]) THEN [ok |-> TRUE, d |-> d]
    ELSE LET r == RowStep(d, lines[p + 1]) IN
         IF r.ok THEN RowLoop(r.d, lines, p + 1) ELSE [ok |-> FALSE, d |-> <<>>]

parse_coverage_report(lines) ==
    IF SeplineOk(Readline(lines, Advance(lines, 0)))
    THEN RowLoop(<<>>, lines, Advance(lines, Advance(lines, 0)))
    ELSE [ok |-> FALSE, d |-> <<>>]

\* the loop over the items of the dict from item k + 1 on
RECURSIVE FileLoop(_, _, _)
FileLoop(d, k, files) ==
    IF k >= Len(d) THEN <<>>
    ELSE LET rel_path == d[k + 1].key
             filepath == Join(SourceRoot, rel_path)
         IN  (IF Exists(files, filepath)
              THEN Matches(rel_path, filepath, d[k + 1].val,
                           get_functions_from_file(files[filepath].src))
              ELSE <<>>)
             \o FileLoop(d, k + 1, files)

find_never_called_functions(lines, files) ==
    LET m == parse_coverage_report(lines) IN
    IF m.ok THEN [ok |-> TRUE, never_called |-> FileLoop(m.d, 0, files)]
    ELSE [ok |-> FALSE, never_called |-> <<>>]

-----------------------------------------------------------------------------
(* Inputs: report texts                                                    *)

RECURSIVE Cat(_)
Cat(ss) == IF ss = <<>> THEN <<>> ELSE Head(ss) \o Cat(Tail(ss))

\* all sequences over S of length at most n
RECURSIVE SeqsUpTo(_, _)
SeqsUpTo(S, n) ==
    IF n = 0 THEN {<<>>}
    ELSE LET shorter == SeqsUpTo(S, n - 1)
         IN  shorter \cup {Append(t, c) : t \in {u \in shorter : Len(u) = n - 1}, c \in S}

Digit(n) == <<Digits[n + 1]>>

HeaderLine == <<"N", "a", "m", "e", " ", "M", "i", "s", "s", "i", "n", "g", "\n">>

DashLine == <<"-", "-", "-", "-", "-", "-", "\n">>

\* a row of a file with missed lines: name, statements, missed, cover, missing
Row(name, missing) ==
    Cat(<<name, <<" ", " ">>, <<"9">>, <<" ">>, <<"4">>, <<" ", " ">>,
          <<"5", "%">>, <<" ", " ", " ">>, missing, <<"\n">>>>)

\* a row of a fully covered file: no fifth field
FullRow(name) ==
    Cat(<<name, <<" ", " ">>, <<"9">>, <<" ">>, <<"0">>, <<" ">>,
          <<"1", "0", "0", "%">>, <<"\n">>>>)

\* the last line of a report: the totals, without a fifth field
TotalLine ==
    <<"T", "O", "T", "A", "L", " ", " ", "9", " ", "4", " ", " ", "5", "%", "\n">>

\* the lines coverage writes after the rows
Trailer == <<DashLine, TotalLine>>

BlankLine == <<" ", "\n">>

\* "a-b"
RangeText(a, b) == Digit(a) \o <<"-">> \o Digit(b)

\* "a, b": coverage separates the entries of the column by a comma and a space
PairText(a, b) == Digit(a) \o <<",", " ">> \o Digit(b)

FileNames == {<<"a">>, <<"b">>, <<"c">>}

-----------------------------------------------------------------------------
(* Inputs: source files                                                    *)

Stmt(kind, depth, nlines, name) ==
    [kind |-> kind, depth |-> depth, nlines |-> nlines, name |-> name]

\* the statements a generated file is made of, at a given depth
StmtsAt(depth) ==
    {Stmt("FunctionDef", depth, 1, n) : n \in {"f", "g"}}
    \cup {Stmt("AsyncFunctionDef", depth, 1, "g")}
    \cup {Stmt("ClassDef", depth, 1, "C"), Stmt("If", depth, 1, "")}
    \cup {Stmt("ExprConstant", depth, 1, ""), Stmt("ExprCall", depth, 1, "")}
    \cup {Stmt("Assign", depth, n, "") : n \in 1..2}

\* the depths the statement after `last` can have: a compound statement is
\* followed by its body, any other by a statement of its block or of an
\* enclosing one
NextDepths(last) ==
    IF last.kind \in CompoundKinds THEN {last.depth + 1} ELSE 0..last.depth

\* the statement sequences of exactly n statements that Python's grammar
\* allows as the start of a file
RECURSIVE Prefixes(_)
Prefixes(n) ==
    IF n = 1 THEN {<<st>> : st \in StmtsAt(0)}
    ELSE UNION {{Append(p, st) : st \in UNION {StmtsAt(d) : d \in NextDepths(p[n - 1])}}
                : p \in Prefixes(n - 1)}

\* a file is complete when its last statement is not the header of a block
IsComplete(src) == src[Len(src)].kind \notin CompoundKinds

Sources == UNION {{p \in Prefixes(n) : IsComplete(p)} : n \in 1..MaxStmts}

\* def f(): "doc"                      a body of a documentation string only
SrcDocOnly == <<Stmt("FunctionDef", 0, 1, "f"), Stmt("ExprConstant", 1, 2, "")>>

\* def f(): "doc" / def g(): x = 1
SrcDocAndCode ==
    <<Stmt("FunctionDef", 0, 1, "f"), Stmt("ExprConstant", 1, 1, ""),
      Stmt("FunctionDef", 0, 1, "g"), Stmt("Assign", 1, 1, "")>>

\* def f(): x = 1; def g(): (def h(): x = 1)       nesting of depth two
SrcDeep ==
    <<Stmt("FunctionDef", 0, 1, "f"), Stmt("Assign", 1, 1, ""),
      Stmt("FunctionDef", 1, 1, "g"), Stmt("FunctionDef", 2, 1, "h"),
      Stmt("Assign", 3, 1, "")>>

\* class C: (def f(): if ...: (async def g(): x = 1)) / def f(): x = 1
SrcMixed ==
    <<Stmt("ClassDef", 0, 1, "C"), Stmt("FunctionDef", 1, 1, "f"),
      Stmt("If", 2, 1, ""), Stmt("AsyncFunctionDef", 3, 1, "g"),
      Stmt("Assign", 4, 1, ""), Stmt("FunctionDef", 0, 1, "f"),
      Stmt("Assign", 1, 1, "")>>

\* x = 1                                  a file without functions
SrcPlain == <<Stmt("Assign", 0, 1, "")>>

\* files longer than the generated ones
SampleSources == {SrcDocOnly, SrcDocAndCode, SrcDeep, SrcMixed, SrcPlain}

PathOf(name) == Join(SourceRoot, name)

Paths == {PathOf(n) : n \in FileNames}

TypeInit ==
    /\ pos = 0
    /\ pc = "header"
    /\ missed_by_file = <<>>
    /\ file_idx = 0
    /\ functions = <<>>
    /\ never_called = <<>>
    /\ stdout = <<>>
    /\ error = "none"

-----------------------------------------------------------------------------
(* SpecDetect: one row, the file it names drawn from the generated files   *)

\* "a-b" for a < b, the reversed "2-1", "a", and "1, MaxLine"
DetectTexts ==
    UNION {{RangeText(a, b) : b \in (a + 1)..MaxLine} : a \in 1..MaxLine}
    \cup {RangeText(2, 1)}
    \cup {Digit(a) : a \in 1..MaxLine}
    \cup {PairText(1, MaxLine)}

InitDetect ==
    /\ TypeInit
    /\ \E t \in DetectTexts :
           \/ /\ report = <<HeaderLine, DashLine, Row(<<"a">>, t)>> \o Trailer
              /\ \E f \in {File(src) : src \in Sources \cup SampleSources}
                              \cup {NoFile} :
                     fs = [p \in Paths |-> IF p = PathOf(<<"a">>) THEN f ELSE NoFile]
           \* a report cut off after its row
           \/ /\ report = <<HeaderLine, DashLine, Row(<<"a">>, t)>>
              /\ \E src \in SampleSources :
                     fs = [p \in Paths |->
                              IF p = PathOf(<<"a">>) THEN File(src) ELSE NoFile]

SpecDetect == InitDetect /\ [][Next]_vars

-----------------------------------------------------------------------------
(* SpecLines: one row whose "Missing" text is any text over a small        *)
(* alphabet                                                                *)

TextChars == {"1", "2", "-", ",", " ", "x"}

FreeTexts == SeqsUpTo(TextChars, MaxText) \ {<<>>}

InitLines ==
    /\ TypeInit
    /\ \E t \in FreeTexts :
           \/ report = <<HeaderLine, DashLine, Row(<<"a">>, t)>> \o Trailer
           \/ /\ report = <<HeaderLine, DashLine, Row(<<"a">>, t)>>
              /\ Len(t) = 1
    /\ \E f \in {File(SrcDocAndCode), NoFile} :
           fs = [p \in Paths |-> IF p = PathOf(<<"a">>) THEN f ELSE NoFile]

SpecLines == InitLines /\ [][Next]_vars

-----------------------------------------------------------------------------
(* SpecReport: reports of any shape, from no line at all to rows after the *)
(* closing line of dashes                                                  *)

\* second lines the assertion rejects: three dashes, dashes after a space,
\* a row, a blank line
BadSecondLines ==
    {<<"-", "-", "-", "\n">>, <<" ", "-", "-", "-", "-", "\n">>,
     Row(<<"a">>, RangeText(1, 2)), BlankLine}

\* second lines it accepts: a line of dashes, four dashes without a line
\* end, dashes followed by other text
GoodSecondLines ==
    {DashLine, Dashes, <<"-", "-", "-", "-", " ", "x", "\n">>}

\* the lines after the second line
ReportLines ==
    {Row(<<"a">>, RangeText(1, 2)), Row(<<"b">>, PairText(1, 3)),
     Row(<<"a">>, <<"x">>), Row(<<"-", "-", "b">>, Digit(1)),
     FullRow(<<"a">>), FullRow(<<"b">>), DashLine, BlankLine}

InitReport ==
    /\ TypeInit
    /\ \/ report \in {<<>>, <<HeaderLine>>}
       \/ \E bad \in BadSecondLines, rest \in SeqsUpTo(ReportLines, 1) :
              report = <<HeaderLine, bad>> \o rest
       \/ \E sep \in GoodSecondLines, rows \in SeqsUpTo(ReportLines, MaxRows) :
              /\ sep # DashLine => Len(rows) <= 1
              /\ report = <<HeaderLine, sep>> \o rows
    /\ fs = [p \in Paths |->
                IF p = PathOf(<<"a">>) THEN File(SrcDocAndCode) ELSE NoFile]

SpecReport == InitReport /\ [][Next]_vars

-----------------------------------------------------------------------------
(* Spec: reports of several rows over files that exist or not              *)

ItemLines ==
    {Row(n, RangeText(1, 5)) : n \in FileNames}
    \cup {Row(<<"a">>, Digit(5)), FullRow(<<"b">>), BlankLine}

FileChoices == {NoFile, File(SrcDocAndCode), File(SrcDeep)}

Init ==
    /\ TypeInit
    /\ \E rows \in SeqsUpTo(ItemLines, MaxItems) :
           report = <<HeaderLine, DashLine>> \o rows
    /\ fs \in [Paths -> FileChoices]

Spec == Init /\ [][Next]_vars

-----------------------------------------------------------------------------
(* Properties of the extractor and of the matcher                          *)

\* the loop has just analysed the file of item file_idx
Analyzed ==
    /\ pc \in {"files", "done"}
    /\ file_idx >= 1
    /\ Exists(fs, PathOf(missed_by_file[file_idx].key))

CurKey == missed_by_file[file_idx].key

CurMissed == missed_by_file[file_idx].val

CurSrc == fs[PathOf(CurKey)].src

CurTree == AstParse(CurSrc)

\* the function definitions of a file, as the statements that are one
Defs(src) == {i \in 1..Len(src) : src[i].kind \in FunctionKinds}

\* definition n lies inside the block of definition e
NestedIn(src, n, e) == e < n /\ n <= LastOf(src, e)

\* the result holds the triple of the definition at node d of the current file
Flagged(d) ==
    \E k \in 1..Len(never_called) :
        never_called[k] = <<CurKey, CurTree[d].name, CurTree[d].lineno>>

\* the record of `functions` for the definition at node d
RecordOf(d) ==
    functions[CHOOSE k \in 1..Len(functions) :
                  functions[k].funcloc = CurTree[d].lineno]

Span(node) == node.lineno..node.end_lineno

(* C1: for a file that has an entry in the report and exists, a function  *)
(* of the file is in the result if and only if every line of its          *)
(* bodyLines is in the missed-line set of the file; so a function with    *)
(* empty bodyLines is always in it and one with a body line outside the   *)
(* set never is.                                                          *)
C1_FlaggedIffBodyMissed ==
    Analyzed =>
        \A k \in 1..Len(functions) :
            (<<CurKey, functions[k].name, functions[k].funcloc>>
                 \in ToSet(never_called))
            <=> (ToSet(functions[k].code_lines) \subseteq CurMissed)

\* a function with an empty body set is flagged against a non-empty missed
\* set, beside a function of the same file that is not flagged
C1_Witness ==
    /\ Analyzed
    /\ CurMissed # {}
    /\ \E k \in 1..Len(functions) :
           /\ functions[k].code_lines = <<>>
           /\ <<CurKey, functions[k].name, functions[k].funcloc>>
                  \in ToSet(never_called)
    /\ \E k \in 1..Len(functions) :
           /\ functions[k].code_lines # <<>>
           /\ <<CurKey, functions[k].name, functions[k].funcloc>>
                  \notin ToSet(never_called)

(* C2: the only statement left out of a function's bodyLines is a         *)
(* literal-expression statement that is the first statement of the body;  *)
(* every other statement, a literal expression that is not the first      *)
(* included, contributes the lines from its first to its last.            *)
C2_OnlyLeadingLiteralSkipped ==
    Analyzed =>
        \A d \in Defs(CurSrc) :
            \A j \in 1..Len(CurTree[d].body) :
                LET child == CurTree[CurTree[d].body[j]] IN
                (j > 1 \/ ~(child.kind = "Expr" /\ child.value = "Constant"))
                    => Span(child) \subseteq ToSet(RecordOf(d).code_lines)

(* C8: the bodyLines of an enclosing function contain the full line span  *)
(* of every function nested in it at any depth; so whenever the enclosing *)
(* function is flagged, all lines of the nested one are missed and the    *)
(* nested one is flagged too.                                             *)
C8_EnclosingCoversNested ==
    Analyzed =>
        \A e \in Defs(CurSrc), n \in Defs(CurSrc) :
            NestedIn(CurSrc, n, e) =>
                /\ Span(CurTree[n]) \subseteq ToSet(RecordOf(e).code_lines)
                /\ Flagged(e) =>
                       (Span(CurTree[n]) \subseteq CurMissed /\ Flagged(n))

\* one nested pair is flagged as a whole, and in another the nested function
\* is flagged without the enclosing one
C8_Witness ==
    /\ Analyzed
    /\ \E e \in Defs(CurSrc), n \in Defs(CurSrc) :
           NestedIn(CurSrc, n, e) /\ Flagged(e) /\ Flagged(n)
    /\ \E e \in Defs(CurSrc), n \in Defs(CurSrc) :
           NestedIn(CurSrc, n, e) /\ ~Flagged(e) /\ Flagged(n)

(* C9: get_functions_from_file returns exactly one record for every       *)
(* function definition of the file, synchronous or asynchronous, at any   *)
(* nesting depth, and the record carries the name and the declaration     *)
(* line of the definition.                                                *)
C9_OneRecordPerDefinition ==
    Analyzed =>
        /\ Len(functions) = Cardinality(Defs(CurSrc))
        /\ \A d \in Defs(CurSrc) :
               Cardinality({k \in 1..Len(functions) :
                   /\ functions[k].name = CurTree[d].name
                   /\ functions[k].funcloc = CurTree[d].lineno}) = 1

\* an asynchronous definition inside a control structure inside a method of
\* a class is recorded, beside a later definition of the same name
C9_Witness ==
    /\ Analyzed
    /\ \E d \in Defs(CurSrc) :
           /\ CurSrc[d].kind = "AsyncFunctionDef"
           /\ CurSrc[d].depth >= 3
           /\ \E k \in 1..Len(functions) : functions[k].funcloc = CurTree[d].lineno
    /\ \E k1, k2 \in 1..Len(functions) :
           k1 # k2 /\ functions[k1].name = functions[k2].name

-----------------------------------------------------------------------------
(* Properties of the two parsers                                           *)

\* the comma-separated tokens of the fifth field of a row
TokensOf(line) == SplitOn(Strip(RowParts(line)[5]), ",")

\* a token as the report format defines it: a decimal integer, or two
\* decimal integers start-end with start <= end
WellFormed(tok) ==
    \/ IntOk(tok)
    \/ \E i \in 1..Len(tok) :
           /\ tok[i] = "-"
           /\ IntOk(SubSeq(tok, 1, i - 1))
           /\ IntOk(SubSeq(tok, i + 1, Len(tok)))
           /\ IntVal(SubSeq(tok, 1, i - 1)) <= IntVal(SubSeq(tok, i + 1, Len(tok)))

\* the row of line 3 has been parsed and the run goes on
RowParsed ==
    /\ Len(report) >= 3
    /\ pos >= 3
    /\ pc # "error"
    /\ HasMissing(RowParts(report[3]))

(* C3: parse_missed_lines never silently drops data: a call that returns  *)
(* has taken every token into its result, and a malformed token           *)
(* (non-numeric, or a reversed range start-end with start > end) makes    *)
(* the call fail.                                                         *)
C3_MalformedTokenFails ==
    RowParsed =>
        \A i \in 1..Len(TokensOf(report[3])) : WellFormed(TokensOf(report[3])[i])

\* the words of a line
Words(line) == SplitWs(line, Len(line))

\* the lines after the second one that end the rows: they start with the
\* dashes "----" or hold nothing but white space
EndsRows(line) ==
    \/ StartsWith(line, Dashes)
    \/ \A i \in 1..Len(line) : IsSpace(line[i])

\* index of the first such line, or one past the last line
FirstEnd ==
    IF \E i \in 3..Len(report) : EndsRows(report[i])
    THEN CHOOSE i \in 3..Len(report) :
             EndsRows(report[i]) /\ \A j \in 3..(i - 1) : ~EndsRows(report[j])
    ELSE Len(report) + 1

\* the second line is no separator: it is absent or does not start with the
\* dashes "----"
NoSeparator == Len(report) < 2 \/ ~StartsWith(report[2], Dashes)

(* C4: when the second line of the report is not a separator of dashes    *)
(* (also when the report has fewer than two lines), the parse fails       *)
(* before any row is read, no mapping is returned and no result list.     *)
C4_NoSeparatorIsFatal ==
    NoSeparator =>
        /\ pc \in {"header", "sepline", "error"}
        /\ pos <= 2
        /\ missed_by_file = <<>>
        /\ never_called = <<>>
        /\ pc = "error" => error = "AssertionError"

\* the run has failed on a report that has rows after a bad second line
C4_Witness ==
    /\ NoSeparator
    /\ pc = "error"
    /\ error = "AssertionError"
    /\ Len(report) >= 3

(* C5: the returned mapping has a key for a name exactly when a row of    *)
(* that name with a fifth field lies after the separator and before the   *)
(* first line that starts with dashes or is blank.                        *)
C5_KeysAreRowsWithMissing ==
    pc \in {"files", "done"} =>
        Keys(missed_by_file) =
            {Words(report[i])[1] :
                 i \in {j \in 3..(FirstEnd - 1) : Len(Words(report[j])) >= 5}}

\* a mapping with a key, from a report with a row of four fields before the
\* closing line and a row with a fifth field after it
C5_Witness ==
    /\ pc = "done"
    /\ missed_by_file # <<>>
    /\ \E i \in 3..(FirstEnd - 1) :
           /\ Len(Words(report[i])) = 4
           /\ Words(report[i])[1] \notin Keys(missed_by_file)
    /\ \E i \in (FirstEnd + 1)..Len(report) :
           /\ Len(Words(report[i])) >= 5
           /\ Words(report[i])[1] \notin Keys(missed_by_file)

-----------------------------------------------------------------------------
(* Properties of the loop over the files                                   *)

(* C6: every triple of the result names a file that is a key of the       *)
(* report mapping: a function of a file without an entry is never in the  *)
(* result, whatever its body is.                                          *)
C6_ResultNamesKeys ==
    \A k \in 1..Len(never_called) : never_called[k][1] \in Keys(missed_by_file)

\* a result with entries, while a file that exists and has a function with
\* an empty body set has no entry in the mapping
C6_Witness ==
    /\ pc = "done"
    /\ never_called # <<>>
    /\ \E n \in FileNames :
           /\ n \notin Keys(missed_by_file)
           /\ Exists(fs, PathOf(n))
           /\ \E k \in 1..Len(get_functions_from_file(fs[PathOf(n)].src)) :
                  get_functions_from_file(fs[PathOf(n)].src)[k].code_lines = <<>>

\* the report without the rows of a file
WithoutRows(lines, name) ==
    LET Keep(k) == k <= 2 \/ Words(lines[k]) = <<>> \/ Words(lines[k])[1] # name
        RECURSIVE Sel(_)
        Sel(k) == IF k > Len(lines) THEN <<>>
                  ELSE (IF Keep(k) THEN <<lines[k]>> ELSE <<>>) \o Sel(k + 1)
    IN  Sel(1)

\* the keys of the mapping whose file does not exist
MissingFiles == {n \in Keys(missed_by_file) : ~Exists(fs, PathOf(n))}

(* C7: for a file of the report that does not exist under the source      *)
(* root, a diagnostic is written, the result has no entry of the file,    *)
(* the run does not fail, and the result is the result of the same run    *)
(* on the report without the rows of that file.                           *)
C7_MissingFileIsSkipped ==
    /\ pc = "error" => file_idx = 0
    /\ pc = "done" =>
           \A n \in MissingFiles :
               /\ NotFoundMessage(PathOf(n)) \in ToSet(stdout)
               /\ \A k \in 1..Len(never_called) : never_called[k][1] # n
               /\ LET other == find_never_called_functions(WithoutRows(report, n), fs)
                  IN  other.ok /\ other.never_called = never_called

\* the run is over, a file of the report did not exist, and a file whose row
\* comes later has entries in the result
C7_Witness ==
    /\ pc = "done"
    /\ \E i \in 1..Len(missed_by_file), j \in 1..Len(missed_by_file) :
           /\ i < j
           /\ missed_by_file[i].key \in MissingFiles
           /\ \E k \in 1..Len(never_called) :
                  never_called[k][1] = missed_by_file[j].key

\* the name of each row that is read and has a fifth field (<<>> for a row
\* that has none)
RowNames ==
    [i \in 3..(FirstEnd - 1) |->
        LET w == Words(report[i]) IN IF Len(w) >= 5 THEN w[1] ELSE <<>>]

\* the first row of a file in such a table
FirstRow(names, name) ==
    CHOOSE i \in DOMAIN names :
        names[i] = name /\ \A j \in DOMAIN names : j < i => names[j] # name

\* the definition of file `name` that a result entry stands for
NodeOf(name, entry) ==
    LET tree == AstParse(fs[PathOf(name)].src)
    IN  CHOOSE d \in Defs(fs[PathOf(name)].src) : tree[d].lineno = entry[3]

\* definitions d1 and d2 of a file are in the same block, d1 first
EarlierSibling(src, d1, d2) ==
    /\ d1 < d2
    /\ src[d1].depth = src[d2].depth
    /\ \A k \in d1..d2 : src[k].depth >= src[d1].depth

(* C10: the result is ordered by the order of the files' rows in the      *)
(* report and, within a file, by the order in which the functions are     *)
(* met: the entries of a file are contiguous, an enclosing function       *)
(* precedes the functions nested in it and an earlier definition its      *)
(* later siblings.                                                        *)
C10_ResultOrder ==
    pc = "done" =>
        LET names == RowNames
            first == [n \in Keys(missed_by_file) |-> FirstRow(names, n)]
            node == [k \in 1..Len(never_called) |->
                        NodeOf(never_called[k][1], never_called[k])]
        IN  \A k1 \in 1..Len(never_called), k2 \in 1..Len(never_called) :
                LET n1 == never_called[k1][1]
                    n2 == never_called[k2][1]
                    src == fs[PathOf(n1)].src
                IN  /\ (n1 # n2 /\ first[n1] < first[n2]) => k1 < k2
                    /\ (/\ n1 = n2
                        /\ \/ NestedIn(src, node[k2], node[k1])
                           \/ EarlierSibling(src, node[k1], node[k2]))
                           => k1 < k2

\* entries of two files, the file of the earlier row first although its
\* name is the later one, with a nested pair and a pair of siblings
C10_Witness ==
    /\ pc = "done"
    /\ \E k1 \in 1..Len(never_called), k2 \in 1..Len(never_called) :
           /\ k1 < k2
           /\ never_called[k1][1] = <<"b">>
           /\ never_called[k2][1] = <<"a">>
    /\ \E k1 \in 1..Len(never_called), k2 \in 1..Len(never_called) :
           /\ never_called[k1][1] = never_called[k2][1]
           /\ LET n == never_called[k1][1] IN
              NestedIn(fs[PathOf(n)].src, NodeOf(n, never_called[k2]),
                       NodeOf(n, never_called[k1]))
    /\ \E k1 \in 1..Len(never_called), k2 \in 1..Len(never_called) :
           /\ never_called[k1][1] = never_called[k2][1]
           /\ LET n == never_called[k1][1] IN
              EarlierSibling(fs[PathOf(n)].src, NodeOf(n, never_called[k1]),
                             NodeOf(n, never_called[k2]))

(* The step-by-step program and the functions as operators agree.         *)
RunAgrees ==
    /\ pc = "done" =>
           /\ find_never_called_functions(report, fs).ok
           /\ find_never_called_functions(report, fs).never_called = never_called
           /\ parse_coverage_report(report).d = missed_by_file
    /\ pc = "error" => ~find_never_called_functions(report, fs).ok

====
